---------------------------- MODULE Spec2Model ----------------------------
(***************************************************************************)
(* A model of three parts of the typesetting library:                      *)
(*   - the fail-fast iterator combinators try_map_ok / try_fold_ok         *)
(*     (library/src/shared/ext.rs),                                        *)
(*   - the `font` and `image` templates executed against the evaluation    *)
(*     context (src/library/font.rs, src/library/image.rs),                *)
(*   - the casts to FontWeight, FontStretch and FontFamilies               *)
(*     (src/library/font.rs) and ImageNode::layout (src/library/image.rs). *)
(* Each part has its own specification over the shared variables; the      *)
(* variables of the other parts stay at their idle values.                 *)
(***************************************************************************)
EXTENDS Integers, Sequences, FiniteSets, TLC

VARIABLES
    \* ---- fail-fast iterators
    src,        \* what the underlying iterator returns, call by call
    mapfn,      \* the transform captured by try_map_ok
    self,       \* the FailFastMapIter: [bail, pos]; pos counts iter.next() calls
    out,        \* what FailFastMapIter::next returned so far, call by call
    fold,       \* the last try_fold_ok call: its arguments and what it returned
    \* ---- template execution (EvalContext)
    state,      \* ctx.state: the working style state
    stack,      \* the font templates whose body is running, innermost first
    sink,       \* the nodes pushed by ctx.push
    diags,      \* the diagnostics recorded by ctx.diag
    nexec,      \* how many templates were executed
    last,       \* the template execution that completed last, as observed
    \* ---- casts and layout
    cast,       \* the last cast: its target type, its input and its CastResult
    lay         \* the last layout: the node, the areas and the frames returned

iterVars == <<src, mapfn, self, out, fold>>
execVars == <<state, stack, sink, diags, nexec, last>>
vars == <<iterVars, execVars, cast, lay>>

(***************************************************************************)
(* Bounds of the model.                                                    *)
(***************************************************************************)
MaxLen == 3
MaxCalls == 5
MaxExec == 3
MaxDepth == 2
MaxArray == 3
WeightMargin == 3
StretchMargin == 3

(***************************************************************************)
(* Fail-fast iterators (ext.rs).                                           *)
(* An item is Some(Ok(v)), Some(Err(e)) or None.  The underlying iterator  *)
(* is any Iterator: it need not be fused, so it may return None and then   *)
(* items again; past the end of src it returns None.                       *)
(***************************************************************************)
Ok(v) == [tag |-> "Ok", v |-> v]
Err(e) == [tag |-> "Err", v |-> e]
None == [tag |-> "None", v |-> 0]

Payloads == {1, 2}
Errors == {7, 8}
Mapped == {10, 11}
Items == {Ok(v) : v \in Payloads} \cup {Err(e) : e \in Errors} \cup {None}

RECURSIVE SeqsUpTo(_, _)
SeqsUpTo(S, n) ==
    IF n = 0 THEN {<<>>}
    ELSE LET shorter == SeqsUpTo(S, n - 1)
         IN  shorter \cup {Append(s, x) : s \in {t \in shorter : Len(t) = n - 1}, x \in S}

\* self.iter.next() as the pos+1-th call on the underlying iterator
iter_next(pos) == IF pos < Len(src) THEN src[pos + 1] ELSE None

\* try_map_ok: the iterator as constructed
try_map_ok == [bail |-> FALSE, pos |-> 0]

\* a next() that does not remember the end of the source
next_forgets_end(it) ==
    IF it.bail THEN [self |-> it, ret |-> None]
    ELSE LET item == iter_next(it.pos)
             adv == [it EXCEPT !.pos = @ + 1]
         IN  CASE item.tag = "Ok" -> [self |-> adv, ret |-> Ok(mapfn[item.v])]
               [] item.tag = "Err" -> [self |-> [adv EXCEPT !.bail = TRUE], ret |-> item]
               [] OTHER -> [self |-> adv, ret |-> None]

\* FailFastMapIter::next: the new iterator state and the returned Option
FailFastMapIter_next(it) ==
    IF it.bail THEN [self |-> it, ret |-> None]
    ELSE LET item == iter_next(it.pos)
             adv == [it EXCEPT !.pos = @ + 1]
         IN  CASE item.tag = "Ok" -> [self |-> adv, ret |-> Ok(mapfn[item.v])]
               [] item.tag = "Err" -> [self |-> [adv EXCEPT !.bail = TRUE], ret |-> item]
               [] OTHER -> [self |-> [adv EXCEPT !.bail = TRUE], ret |-> None]

\* the combining functions tried for foldfn: B = Int, both sensitive to
\* which payloads are folded, the first also to their order
FoldFns == {"shift", "sum"}
foldfn(g, folded, value) ==
    IF g = "shift" THEN 3 * folded + value ELSE folded + value
Initials == {0, 1}

\* a loop that skips an Err instead of returning it
RECURSIVE loop_skips_err(_, _, _)
loop_skips_err(g, pos, folded) ==
    LET item == iter_next(pos)
    IN  CASE item.tag = "Ok" -> loop_skips_err(g, pos + 1, foldfn(g, folded, item.v))
          [] item.tag = "Err" -> loop_skips_err(g, pos + 1, folded)
          [] OTHER -> [ret |-> Ok(folded), pos |-> pos + 1]

\* the loop of try_fold_ok, from the pos-th call on, with `folded` so far
RECURSIVE try_fold_ok_loop(_, _, _)
try_fold_ok_loop(g, pos, folded) ==
    LET item == iter_next(pos)
    IN  CASE item.tag = "Ok" -> try_fold_ok_loop(g, pos + 1, foldfn(g, folded, item.v))
          [] item.tag = "Err" -> [ret |-> Err(item.v), pos |-> pos + 1]
          [] OTHER -> [ret |-> Ok(folded), pos |-> pos + 1]

\* try_fold_ok(initial, foldfn) on a fresh iterator over src
try_fold_ok(initial, g) == try_fold_ok_loop(g, 0, initial)

(***************************************************************************)
(* The style state and the font template (font.rs).                        *)
(* An Option is a sequence: <<>> for None, <<v>> for Some(v).              *)
(* A Linear is [rel, abs]: rel in percent, abs in points.                  *)
(***************************************************************************)
Linear(rel, abs) == [rel |-> rel, abs |-> abs]
Relative_ONE == Linear(100, 0)

\* the fields of ctx.state.font that the template writes
DefaultState ==
    [size |-> 11, scale |-> Relative_ONE, list |-> <<"serif">>,
     style |-> "normal", weight |-> 400, stretch |-> 100,
     top_edge |-> "cap-height", bottom_edge |-> "baseline",
     color |-> <<"Color", "black">>,
     serif |-> <<"eb garamond">>, sans_serif |-> <<"pt sans">>,
     monospace |-> <<"inconsolata">>]

\* the arguments `font` binds (lines 59-69), body apart
NoArgs ==
    [size |-> <<>>, list |-> <<>>, style |-> <<>>, weight |-> <<>>,
     stretch |-> <<>>, top_edge |-> <<>>, bottom_edge |-> <<>>, color |-> <<>>,
     serif |-> <<>>, sans_serif |-> <<>>, monospace |-> <<>>]

\* the argument sets the templates of the model are built with
FontArgs ==
    { NoArgs,
      [NoArgs EXCEPT !.size = <<Linear(0, 20)>>],
      [NoArgs EXCEPT !.size = <<Linear(150, 0)>>, !.weight = <<300>>],
      [NoArgs EXCEPT !.list = <<"noto sans", "serif">>],
      [NoArgs EXCEPT !.weight = <<700>>, !.style = <<"italic">>, !.stretch = <<50>>],
      [NoArgs EXCEPT !.top_edge = <<"ascender">>, !.bottom_edge = <<"descender">>,
                     !.color = <<"red">>],
      [NoArgs EXCEPT !.serif = <<<<>>>>, !.sans_serif = <<<<"arial", "helvetica">>>>],
      [NoArgs EXCEPT !.monospace = <<<<"courier">>>>, !.list = <<"monospace">>] }

\* lines 75-82
apply_size(st, a) ==
    IF a.size = <<>> THEN st
    ELSE IF a.size[1].rel = 0
         THEN [st EXCEPT !.size = a.size[1].abs, !.scale = Relative_ONE]
         ELSE [st EXCEPT !.scale = a.size[1]]

\* lines 84-86
apply_list(st, a) ==
    IF a.list # <<>> THEN [st EXCEPT !.list = a.list] ELSE st

\* lines 88-106: style, weight, stretch, top_edge, bottom_edge
apply_variant(st, a) ==
    [st EXCEPT
        !.style = IF a.style # <<>> THEN a.style[1] ELSE @,
        !.weight = IF a.weight # <<>> THEN a.weight[1] ELSE @,
        !.stretch = IF a.stretch # <<>> THEN a.stretch[1] ELSE @,
        !.top_edge = IF a.top_edge # <<>> THEN a.top_edge[1] ELSE @,
        !.bottom_edge = IF a.bottom_edge # <<>> THEN a.bottom_edge[1] ELSE @]

\* lines 108-110
apply_color(st, a) ==
    IF a.color # <<>> THEN [st EXCEPT !.color = <<"Color", a.color[1]>>] ELSE st

\* lines 112-122
apply_families(st, a) ==
    [st EXCEPT
        !.serif = IF a.serif # <<>> THEN a.serif[1] ELSE @,
        !.sans_serif = IF a.sans_serif # <<>> THEN a.sans_serif[1] ELSE @,
        !.monospace = IF a.monospace # <<>> THEN a.monospace[1] ELSE @]

\* an apply that resets the weight when none is given
apply_resets_weight(st, a) ==
    LET s == apply_families(apply_color(apply_variant(apply_list(apply_size(st, a), a), a), a), a)
    IN  IF a.weight = <<>> THEN [s EXCEPT !.weight = 400] ELSE s

\* lines 75-122: the parameters applied to ctx.state, in the order of the code
font_apply(st, a) ==
    apply_families(apply_color(apply_variant(apply_list(apply_size(st, a), a), a), a), a)

\* line 73: let snapshot = ctx.state.clone()
font_snapshot(st) == st

\* a body exit that leaves the state as the body left it
exit_without_restore(cur, snapshot) == cur

\* line 126, after body.exec(ctx): ctx.state = snapshot
font_body_exit(cur, snapshot) == snapshot

(***************************************************************************)
(* The image template (image.rs).                                          *)
(***************************************************************************)
\* the resources of the environment: ctx.env.load_resource(path) and the
\* dimensions ctx.env.resource(id) reports
Env ==
    [p \in {"tiger.png", "missing.png"} |->
        IF p = "tiger.png" THEN <<[id |-> 1, dimensions |-> <<100, 50>>]>> ELSE <<>>]
load_resource(p) == IF Env[p] = <<>> THEN <<>> ELSE <<Env[p][1].id>>
resource(id) == (CHOOSE p \in DOMAIN Env : Env[p] # <<>> /\ Env[p][1].id = id)

\* the path arguments: None (the argument was missing) or Some(Spanned)
ImagePaths ==
    { <<>>, <<[v |-> "tiger.png", span |-> 3]>>, <<[v |-> "missing.png", span |-> 9]>> }
\* the <<width, height>> arguments
ImageDims == { <<<<>>, <<>>>>, <<<<Linear(0, 200)>>, <<Linear(50, 0)>>>> }

\* an execution that records the diagnostic and pushes a node all the same
image_pushes_on_failure(cx, path, width, height) ==
    IF path = <<>> THEN cx
    ELSE LET loaded == load_resource(path[1].v)
             d == [span |-> path[1].span, level |-> "error", message |-> "failed to load image"]
         IN  IF loaded # <<>>
             THEN [cx EXCEPT !.sink = Append(@,
                      [id |-> loaded[1],
                       dimensions |-> Env[resource(loaded[1])][1].dimensions,
                       width |-> width, height |-> height])]
             ELSE [sink |-> Append(cx.sink,
                      [id |-> 0, dimensions |-> <<0, 0>>, width |-> width, height |-> height]),
                   diags |-> Append(cx.diags, d)]

\* lines 21-32: the template's closure, on cx = [sink, diags]
image_exec(cx, path, width, height) ==
    IF path = <<>> THEN cx
    ELSE LET loaded == load_resource(path[1].v)
         IN  IF loaded # <<>>
             THEN [cx EXCEPT !.sink = Append(@,
                      [id |-> loaded[1],
                       dimensions |-> Env[resource(loaded[1])][1].dimensions,
                       width |-> width, height |-> height])]
             ELSE [cx EXCEPT !.diags = Append(@,
                      [span |-> path[1].span, level |-> "error",
                       message |-> "failed to load image"])]

\* what is observed of a completed template execution: the style state at its
\* start (pre) and after its return (post), at the start of its body (entered)
\* and at the end of its body (atExit), how many font bodies enclosed it
\* (depth), and what had completed last when it started (prev)
NoExec == [kind |-> "none", body |-> FALSE, depth |-> 0, post |-> DefaultState]
Summary(l) == [kind |-> l.kind, body |-> l.body, depth |-> l.depth, post |-> l.post]

ExecIdle ==
    /\ state = DefaultState
    /\ stack = <<>>
    /\ sink = <<>>
    /\ diags = <<>>
    /\ nexec = 0
    /\ last = NoExec

(***************************************************************************)
(* Values and casts (font.rs, typify!).                                    *)
(* A string is the sequence of its characters.  A CastResult is            *)
(* [tag, v, msg] with tag Ok, Warn or Err.                                 *)
(***************************************************************************)
\* a Value: its variant, and its payload in the field of the payload's type
\* (n: a number, s: a string, a: an array of values)
Value_Int(n) == [ty |-> "Int", n |-> n, s |-> <<>>, a |-> <<>>]
Value_Str(s) == [ty |-> "Str", n |-> 0, s |-> s, a |-> <<>>]
Value_Array(a) == [ty |-> "Array", n |-> 0, s |-> <<>>, a |-> a]
Value_Relative(r) == [ty |-> "Relative", n |-> r, s |-> <<>>, a |-> <<>>]
Value_None == [ty |-> "None", n |-> 0, s |-> <<>>, a |-> <<>>]

CastResult_Ok(v) == [tag |-> "Ok", v |-> v, msg |-> <<>>]
CastResult_Warn(v, m) == [tag |-> "Warn", v |-> v, msg |-> m]
CastResult_Err(m) == [tag |-> "Err", v |-> 0, msg |-> m]

\* the arm every typify! ends with: no pattern matched
mismatch(expected) == CastResult_Err(<<"expected ", expected>>)

UpperCase == <<"A", "B", "C", "D", "E", "F", "G", "H", "I", "J", "K", "L", "M",
               "N", "O", "P", "Q", "R", "S", "T", "U", "V", "W", "X", "Y", "Z">>
LowerCase == <<"a", "b", "c", "d", "e", "f", "g", "h", "i", "j", "k", "l", "m",
               "n", "o", "p", "q", "r", "s", "t", "u", "v", "w", "x", "y", "z">>

\* str::to_lowercase, on the letters A-Z
to_lowercase(s) ==
    [i \in 1..Len(s) |->
        IF \E j \in 1..Len(UpperCase) : UpperCase[j] = s[i]
        THEN LowerCase[CHOOSE j \in 1..Len(UpperCase) : UpperCase[j] = s[i]]
        ELSE s[i]]

\* v.cast::<String>(): only a string casts to a String
String_cast(value) ==
    IF value.ty = "Str" THEN CastResult_Ok(value.s) ELSE mismatch("string")

\* CastResult::ok(): the value of an Ok or a Warn
CastResult_ok(r) == IF r.tag = "Err" THEN <<>> ELSE <<r.v>>

\* a collection that stops at the first element that is not a string
RECURSIVE collect_until_mismatch(_)
collect_until_mismatch(values) ==
    IF values = <<>> THEN <<>>
    ELSE LET o == CastResult_ok(String_cast(Head(values)))
         IN  IF o = <<>> THEN <<>>
             ELSE <<to_lowercase(o[1])>> \o collect_until_mismatch(Tail(values))

\* lines 138-143: values.into_iter().filter_map(|v| v.cast().ok())
\*                .map(|string| string.to_lowercase()).collect()
RECURSIVE collect_families(_)
collect_families(values) ==
    IF values = <<>> THEN <<>>
    ELSE LET o == CastResult_ok(String_cast(Head(values)))
         IN  (IF o = <<>> THEN <<>> ELSE <<to_lowercase(o[1])>>)
                 \o collect_families(Tail(values))

\* typify! FontFamilies (lines 135-144)
FontFamilies_cast(value) ==
    CASE value.ty = "Str" -> CastResult_Ok(<<to_lowercase(value.s)>>)
      [] value.ty = "Array" -> CastResult_Ok(collect_families(value.a))
      [] OTHER -> mismatch("string or array of strings")

\* FontWeight::THIN and FontWeight::BLACK, as numbers
THIN == 100
BLACK == 900
\* FontWeight::to_number and FontWeight::from_number: a weight is its number,
\* kept within [100, 900]
to_number(weight) == weight
from_number(n) == IF n < 100 THEN 100 ELSE IF n > 900 THEN 900 ELSE n
\* number as u16
as_u16(n) == n % 65536

\* format!("should be between {} and {}", min.to_number(), max.to_number())
FontWeight_message ==
    <<"should be between ", ToString(to_number(THIN)), " and ", ToString(to_number(BLACK))>>

\* a cast that narrows to u16 before it compares
weight_cast_narrows_first(value) ==
    IF value.ty = "Int"
    THEN LET number == as_u16(value.n)
         IN  IF number < to_number(THIN) THEN CastResult_Warn(THIN, FontWeight_message)
             ELSE IF number > to_number(BLACK) THEN CastResult_Warn(BLACK, FontWeight_message)
             ELSE CastResult_Ok(from_number(number))
    ELSE mismatch("font weight")

\* typify! FontWeight (lines 155-173)
FontWeight_cast(value) ==
    IF value.ty = "Int"
    THEN LET number == value.n
         IN  IF number < to_number(THIN) THEN CastResult_Warn(THIN, FontWeight_message)
             ELSE IF number > to_number(BLACK) THEN CastResult_Warn(BLACK, FontWeight_message)
             ELSE CastResult_Ok(from_number(as_u16(number)))
    ELSE mismatch("font weight")

(***************************************************************************)
(* FontStretch.  A ratio is an integer count of F64Unit-ths: every such    *)
(* count below 2^31 is an f64.  An f32 has 24 significant bits, so a count  *)
(* in [2^e, 2^(e+1)) with e >= 24 is an f32 only when it is a multiple of   *)
(* 2^(e-23).                                                               *)
(***************************************************************************)
F64Unit == 2^29

RECURSIVE Log2(_)
Log2(n) == IF n < 2 THEN 0 ELSE 1 + Log2(n \div 2)

\* the spacing of the f32 values around the count n >= 0
Ulp32(n) == IF n < 2^24 THEN 1 ELSE 2^(Log2(n) - 23)

\* `as f32` of an f64: to the nearest f32, ties to even
as_f32(n) ==
    LET m == IF n < 0 THEN -n ELSE n
        u == Ulp32(m)
        q == m \div u
        r == m % u
        up == 2 * r > u \/ (2 * r = u /\ q % 2 = 1)
        rounded == (IF up THEN q + 1 ELSE q) * u
    IN  IF n < 0 THEN -rounded ELSE rounded

\* FontStretch::ULTRA_CONDENSED (0.5) and FontStretch::ULTRA_EXPANDED (2.0)
ULTRA_CONDENSED == F64Unit \div 2
ULTRA_EXPANDED == 2 * F64Unit
\* FontStretch::to_ratio and FontStretch::from_ratio: a stretch is its ratio,
\* kept within [0.5, 2.0]
to_ratio(stretch) == stretch
from_ratio(ratio) ==
    IF ratio < ULTRA_CONDENSED THEN ULTRA_CONDENSED
    ELSE IF ratio > ULTRA_EXPANDED THEN ULTRA_EXPANDED ELSE ratio

\* format!("should be between {} and {}", Relative::new(..), Relative::new(..))
FontStretch_message ==
    <<"should be between ", ToString(25 * (to_ratio(ULTRA_CONDENSED) \div (F64Unit \div 4))), "%",
      " and ", ToString(25 * (to_ratio(ULTRA_EXPANDED) \div (F64Unit \div 4))), "%">>

\* typify! FontStretch (lines 175-194)
FontStretch_cast(value) ==
    IF value.ty = "Relative"
    THEN LET ratio == as_f32(value.n)
             stretch == from_ratio(ratio)
         IN  IF ratio < to_ratio(ULTRA_CONDENSED) \/ ratio > to_ratio(ULTRA_EXPANDED)
             THEN CastResult_Warn(stretch, FontStretch_message)
             ELSE CastResult_Ok(stretch)
    ELSE mismatch("font stretch")

NoCast == [ty |-> "none", input |-> Value_None, res |-> CastResult_Ok(0)]

CastIdle == cast = NoCast

(***************************************************************************)
(* Lengths and ratios of the layout (image.rs): f64 numbers that are zero  *)
(* or positive, as exact fractions n/d, with the infinity that stands for  *)
(* an unbounded axis and the NaN that 0/0, inf/inf and 0 * inf give.       *)
(***************************************************************************)
RECURSIVE GCD(_, _)
GCD(a, b) == IF b = 0 THEN a ELSE GCD(b, a % b)

Fin(n, d) == LET g == GCD(n, d) IN [k |-> "fin", n |-> n \div g, d |-> d \div g]
INF == [k |-> "inf", n |-> 0, d |-> 1]
NAN == [k |-> "nan", n |-> 0, d |-> 1]

is_finite(a) == a.k = "fin"

Mul(a, b) ==
    CASE a.k = "nan" \/ b.k = "nan" -> NAN
      [] a.k = "inf" -> IF b.k = "fin" /\ b.n = 0 THEN NAN ELSE INF
      [] b.k = "inf" -> IF a.n = 0 THEN NAN ELSE INF
      [] OTHER -> Fin(a.n * b.n, a.d * b.d)

Div(a, b) ==
    CASE a.k = "nan" \/ b.k = "nan" -> NAN
      [] a.k = "inf" -> IF b.k = "inf" THEN NAN ELSE INF
      [] b.k = "inf" -> Fin(0, 1)
      [] b.n = 0 -> IF a.n = 0 THEN NAN ELSE INF
      [] OTHER -> Fin(a.n * b.d, a.d * b.n)

Add(a, b) ==
    CASE a.k = "nan" \/ b.k = "nan" -> NAN
      [] a.k = "inf" \/ b.k = "inf" -> INF
      [] OTHER -> Fin(a.n * b.d + b.n * a.d, a.d * b.d)

\* a < b: false when either is NaN
Lt(a, b) ==
    CASE a.k = "nan" \/ b.k = "nan" -> FALSE
      [] a.k = "inf" -> FALSE
      [] b.k = "inf" -> TRUE
      [] OTHER -> a.n * b.d < b.n * a.d

Size_new(w, h) == [width |-> w, height |-> h]
Point_ZERO == [x |-> Fin(0, 1), y |-> Fin(0, 1)]
\* Length::pt
Length_pt(x) == x

\* Linear::resolve: the relative part of `one`, plus the absolute part
resolve(linear, one) == Add(Mul(Fin(linear.rel, 100), one), Fin(linear.abs, 1))

\* a sizing whose width-only case multiplies by the ratio
size_width_case_multiplies(node, areas) ==
    LET pixel_ratio == Div(Fin(node.dimensions[1], 1), Fin(node.dimensions[2], 1))
        width == IF node.width = <<>> THEN <<>>
                 ELSE <<resolve(node.width[1], areas.full.width)>>
        height == IF node.height = <<>> THEN <<>>
                  ELSE <<resolve(node.height[1], areas.full.height)>>
    IN  CASE width # <<>> /\ height # <<>> -> Size_new(width[1], height[1])
          [] width # <<>> /\ height = <<>> -> Size_new(width[1], Mul(width[1], pixel_ratio))
          [] width = <<>> /\ height # <<>> -> Size_new(Mul(height[1], pixel_ratio), height[1])
          [] OTHER ->
                IF Lt(Div(areas.current.width, areas.current.height), pixel_ratio)
                      /\ is_finite(areas.current.width)
                THEN Size_new(areas.current.width, Div(areas.current.width, pixel_ratio))
                ELSE IF is_finite(areas.current.height)
                THEN Size_new(Mul(areas.current.height, pixel_ratio), areas.current.height)
                ELSE Size_new(Length_pt(Fin(node.dimensions[1], 1)),
                              Length_pt(Fin(node.dimensions[2], 1)))

\* lines 50-75: the size ImageNode::layout gives the frame
image_size(node, areas) ==
    LET current == areas.current
        full == areas.full
        pixel_width == Fin(node.dimensions[1], 1)
        pixel_height == Fin(node.dimensions[2], 1)
        pixel_ratio == Div(pixel_width, pixel_height)
        width == IF node.width = <<>> THEN <<>> ELSE <<resolve(node.width[1], full.width)>>
        height == IF node.height = <<>> THEN <<>> ELSE <<resolve(node.height[1], full.height)>>
    IN  CASE width # <<>> /\ height # <<>> -> Size_new(width[1], height[1])
          [] width # <<>> /\ height = <<>> -> Size_new(width[1], Div(width[1], pixel_ratio))
          [] width = <<>> /\ height # <<>> -> Size_new(Mul(height[1], pixel_ratio), height[1])
          [] OTHER ->
                LET ratio == Div(current.width, current.height)
                IN  IF Lt(ratio, pixel_ratio) /\ is_finite(current.width)
                    THEN Size_new(current.width, Div(current.width, pixel_ratio))
                    ELSE IF is_finite(current.height)
                    THEN Size_new(Mul(current.height, pixel_ratio), current.height)
                    ELSE Size_new(Length_pt(pixel_width), Length_pt(pixel_height))

\* Frame::new(size, baseline) and frame.push(pos, element)
Frame_new(size, baseline) == [size |-> size, baseline |-> baseline, elements |-> <<>>]
Frame_push(frame, pos, element) ==
    [frame EXCEPT !.elements = Append(@, [pos |-> pos, element |-> element])]

\* a layout whose frame has its baseline at the top
layout_baseline_at_top(node, areas) ==
    LET size == image_size(node, areas)
    IN  <<Frame_push(Frame_new(size, Fin(0, 1)), Point_ZERO,
                     [kind |-> "Image", id |-> node.id, size |-> size])>>

\* ImageNode::layout (lines 49-81): the frames returned
ImageNode_layout(node, areas) ==
    LET size == image_size(node, areas)
        frame == Frame_push(Frame_new(size, size.height), Point_ZERO,
                            [kind |-> "Image", id |-> node.id, size |-> size])
    IN  <<frame>>

NoLayout == [done |-> FALSE]

LayoutIdle == lay = NoLayout

NotRun == [run |-> FALSE, g |-> "sum", initial |-> 0, ret |-> None, pos |-> 0]

IterIdle ==
    /\ src = <<>>
    /\ mapfn = [v \in Payloads |-> 10]
    /\ self = try_map_ok
    /\ out = <<>>
    /\ fold = NotRun

InitIter ==
    /\ ExecIdle
    /\ CastIdle
    /\ LayoutIdle
    /\ src \in SeqsUpTo(Items, MaxLen)
    /\ mapfn \in [Payloads -> Mapped]
    /\ self = try_map_ok
    /\ out = <<>>
    /\ fold = NotRun

\* one call of next() on the iterator try_map_ok returned
MapNext ==
    /\ Len(out) < MaxCalls
    /\ LET r == FailFastMapIter_next(self)
       IN  /\ self' = r.self
           /\ out' = Append(out, r.ret)
    /\ UNCHANGED <<src, mapfn, fold, execVars, cast, lay>>

\* one call of try_fold_ok on the source
TryFoldOk ==
    /\ ~fold.run
    /\ \E g \in FoldFns, b \in Initials :
          LET r == try_fold_ok(b, g)
          IN  fold' = [run |-> TRUE, g |-> g, initial |-> b, ret |-> r.ret, pos |-> r.pos]
    /\ UNCHANGED <<src, mapfn, self, out, execVars, cast, lay>>

NextIter == MapNext \/ TryFoldOk

SpecIter == InitIter /\ [][NextIter]_vars

(***************************************************************************)
(* Template execution.  A font template with a body runs from FontEnter    *)
(* to FontExit; the templates its body holds run in between.               *)
(***************************************************************************)
InitialStates ==
    { DefaultState,
      [DefaultState EXCEPT !.size = 9, !.scale = Linear(120, 1), !.weight = 700,
                           !.list = <<"sans-serif">>, !.color = <<"Color", "blue">>] }

InitExec ==
    /\ IterIdle
    /\ CastIdle
    /\ LayoutIdle
    /\ state \in InitialStates
    /\ stack = <<>>
    /\ sink = <<>>
    /\ diags = <<>>
    /\ nexec = 0
    /\ last = NoExec

\* a font template without a body, executed from start to end
FontNoBody ==
    /\ nexec < MaxExec
    /\ \E a \in FontArgs :
          /\ state' = font_apply(state, a)
          /\ last' = [kind |-> "font", body |-> FALSE, args |-> a, pre |-> state,
                      entered |-> state', atExit |-> state', post |-> state',
                      depth |-> Len(stack), prev |-> Summary(last)]
    /\ nexec' = nexec + 1
    /\ UNCHANGED <<stack, sink, diags, iterVars, cast, lay>>

\* a font template with a body, up to the start of body.exec(ctx)
FontEnter ==
    /\ nexec < MaxExec
    /\ Len(stack) < MaxDepth
    /\ \E a \in FontArgs :
          /\ state' = font_apply(state, a)
          /\ stack' = <<[kind |-> "font", body |-> TRUE, depth |-> Len(stack),
                         snapshot |-> font_snapshot(state), pre |-> state,
                         args |-> a, entered |-> state',
                         prev |-> Summary(last)]>> \o stack
    /\ nexec' = nexec + 1
    /\ UNCHANGED <<sink, diags, last, iterVars, cast, lay>>

\* body.exec(ctx) has returned: the rest of the innermost font template
FontExit ==
    /\ stack # <<>>
    /\ LET f == Head(stack)
       IN  /\ state' = font_body_exit(state, f.snapshot)
           /\ last' = [kind |-> "font", body |-> TRUE, args |-> f.args, pre |-> f.pre,
                       entered |-> f.entered, atExit |-> state, post |-> state',
                       depth |-> f.depth, prev |-> f.prev]
    /\ stack' = Tail(stack)
    /\ UNCHANGED <<sink, diags, nexec, iterVars, cast, lay>>

\* an image template, executed from start to end
ImageExec ==
    /\ nexec < MaxExec
    /\ UNCHANGED <<state, stack, iterVars, cast, lay>>
    /\ \E path \in ImagePaths, wh \in ImageDims :
          LET width == wh[1]
              height == wh[2]
              cx == image_exec([sink |-> sink, diags |-> diags], path, width, height)
          IN  /\ sink' = cx.sink
              /\ diags' = cx.diags
              /\ last' = [kind |-> "image", body |-> FALSE, depth |-> Len(stack),
                          prev |-> Summary(last), path |-> path, width |-> width,
                          height |-> height, pre |-> state, post |-> state',
                          sink0 |-> sink, sink1 |-> cx.sink,
                          diags0 |-> diags, diags1 |-> cx.diags]
    /\ nexec' = nexec + 1

NextExec == FontNoBody \/ FontEnter \/ FontExit \/ ImageExec

SpecExec == InitExec /\ [][NextExec]_vars

(***************************************************************************)
(* Casts, one value at a time.                                             *)
(***************************************************************************)
\* the integers cast to FontWeight: every one from WeightMargin below 100 to
\* WeightMargin above 900, and some far outside (one of them 100 + 2^16)
IntInputs ==
    ((THIN - WeightMargin)..(BLACK + WeightMargin))
        \cup {-2147483647, -70000, -1, 0, 1000, 65536 + 100, 65536 + 901, 2147483647}

\* the ratios cast to FontStretch: those within StretchMargin units of each
\* bound and of 1.0, and some far from them
RatioInputs ==
    UNION {(b - StretchMargin)..(b + StretchMargin) :
              b \in {ULTRA_CONDENSED, F64Unit, ULTRA_EXPANDED}}
        \cup {-ULTRA_CONDENSED, 0, 1, F64Unit \div 4, 3 * (F64Unit \div 4),
              3 * (F64Unit \div 2), 3 * F64Unit}

Strings ==
    { <<"S", "e", "r", "i", "f">>, <<"M", "O", "N", "O">>, <<"m", "o", "n", "o">>,
      <<"A", "1", "-", "z">>, <<>> }
Elements ==
    {Value_Str(s) : s \in Strings} \cup {Value_Int(5), Value_None, Value_Array(<<>>)}
FamilyInputs ==
    {Value_Str(s) : s \in Strings}
        \cup {Value_Array(a) : a \in SeqsUpTo(Elements, MaxArray)}
        \cup {Value_Int(5), Value_None}

InitCast ==
    /\ IterIdle
    /\ ExecIdle
    /\ LayoutIdle
    /\ cast = NoCast

CastFontWeight ==
    /\ cast = NoCast
    /\ \E v \in {Value_Int(n) : n \in IntInputs} \cup {Value_None, Value_Str(<<"b", "o", "l", "d">>)} :
          cast' = [ty |-> "FontWeight", input |-> v, res |-> FontWeight_cast(v)]
    /\ UNCHANGED <<iterVars, execVars, lay>>

CastFontStretch ==
    /\ cast = NoCast
    /\ \E v \in {Value_Relative(r) : r \in RatioInputs} \cup {Value_None, Value_Int(1)} :
          cast' = [ty |-> "FontStretch", input |-> v, res |-> FontStretch_cast(v)]
    /\ UNCHANGED <<iterVars, execVars, lay>>

CastFontFamilies ==
    /\ cast = NoCast
    /\ \E v \in FamilyInputs :
          cast' = [ty |-> "FontFamilies", input |-> v, res |-> FontFamilies_cast(v)]
    /\ UNCHANGED <<iterVars, execVars, lay>>

NextCast == CastFontWeight \/ CastFontStretch \/ CastFontFamilies

SpecCast == InitCast /\ [][NextCast]_vars

(***************************************************************************)
(* Layout of an image node.                                                *)
(***************************************************************************)
\* the pixel dimensions of a decoded image: both at least 1
Dimensions == {<<100, 50>>, <<30, 40>>, <<1, 1>>, <<7, 3>>}
Overrides == {<<>>, <<Linear(0, 200)>>, <<Linear(50, 0)>>, <<Linear(25, 10)>>, <<Linear(0, 0)>>}
ImageNodes ==
    [id : {1, 2}, dimensions : Dimensions, width : Overrides, height : Overrides]
\* the sides of a region: zero, some lengths, unbounded
Sides == {Fin(0, 1), Fin(150, 1), Fin(100, 1), Fin(301, 2), INF}
FullSides == {Fin(400, 1), Fin(595, 2)}
AreasInputs ==
    [current : [width : Sides, height : Sides],
     full : [width : FullSides, height : FullSides]]

InitLayout ==
    /\ IterIdle
    /\ ExecIdle
    /\ CastIdle
    /\ lay = NoLayout

Layout ==
    /\ ~lay.done
    /\ \E node \in ImageNodes, areas \in AreasInputs :
          lay' = [done |-> TRUE, node |-> node, areas |-> areas,
                  frames |-> ImageNode_layout(node, areas)]
    /\ UNCHANGED <<iterVars, execVars, cast>>

NextLayout == Layout

SpecLayout == InitLayout /\ [][NextLayout]_vars

(***************************************************************************)
(* Claims about the iterators.                                             *)
(***************************************************************************)
\* the 1-based position of the first item of src that is not an Ok
\* (Len(src) + 1 when there is none: the source ends there)
RECURSIVE FirstStop(_)
FirstStop(i) ==
    IF i > Len(src) \/ src[i].tag # "Ok" THEN i ELSE FirstStop(i + 1)

\* the source sequence proper: what the source yields before its end
HasErr == FirstStop(1) <= Len(src) /\ src[FirstStop(1)].tag = "Err"

\* C1: the outputs of the try_map_ok iterator are, in source order, Ok(f(x))
\* for each Ok(x) before the first Err, then that Err unchanged if there is
\* one, then None on every later call; and the source is advanced once per
\* call up to and including the call that met the Err or the end, never after.
MapOkContract ==
    LET k == FirstStop(1)
    IN  /\ \A i \in 1..Len(out) :
              out[i] = IF i < k THEN Ok(mapfn[src[i].v])
                       ELSE IF i = k /\ HasErr THEN src[k]
                       ELSE None
        /\ self.pos = IF Len(out) < k THEN Len(out) ELSE k
        /\ self.bail <=> Len(out) >= k

\* C1 witness: the iterator was called again after the source had ended or
\* failed, while items were still left in the source
MapOkWitness ==
    /\ FirstStop(1) < Len(src)
    /\ FirstStop(1) > 1
    /\ Len(out) > FirstStop(1) + 1

RECURSIVE FoldLeft(_, _, _)
FoldLeft(g, b, s) ==
    IF s = <<>> THEN b
    ELSE foldfn(g, FoldLeft(g, b, SubSeq(s, 1, Len(s) - 1)), s[Len(s)].v)

\* C2: try_fold_ok returns the first Err alone, having advanced the source
\* exactly up to and including it; without an Err it returns Ok of the left
\* fold of the Ok payloads in source order, starting from the initial value.
FoldOkContract ==
    fold.run =>
        LET k == FirstStop(1)
        IN  /\ fold.pos = k
            /\ fold.ret = IF HasErr THEN src[k]
                          ELSE Ok(FoldLeft(fold.g, fold.initial, SubSeq(src, 1, k - 1)))

\* C2 witness: an Err after at least one Ok, with items left unread
FoldOkWitness ==
    /\ fold.run
    /\ HasErr
    /\ FirstStop(1) > 1
    /\ FirstStop(1) < Len(src)
    /\ fold.ret.tag = "Err"

(***************************************************************************)
(* Claims about the templates.                                             *)
(***************************************************************************)
\* `post` is `pre` with exactly the supplied parameters written: a field whose
\* parameter is absent (for list: empty) keeps its value, a field whose
\* parameter is present holds what the parameter gives.  The size parameter
\* governs font.size and font.scale: an absolute size sets the size and
\* resets the scale to 100%, any other size becomes the scale.
ParamsApplied(pre, a, post) ==
    /\ post.size = IF a.size # <<>> /\ a.size[1].rel = 0 THEN a.size[1].abs ELSE pre.size
    /\ post.scale = IF a.size = <<>> THEN pre.scale
                    ELSE IF a.size[1].rel = 0 THEN Linear(100, 0) ELSE a.size[1]
    /\ post.list = IF Len(a.list) = 0 THEN pre.list ELSE a.list
    /\ post.color = IF a.color = <<>> THEN pre.color ELSE <<"Color", a.color[1]>>
    /\ \A f \in {"style", "weight", "stretch", "top_edge", "bottom_edge",
                 "serif", "sans_serif", "monospace"} :
          post[f] = IF a[f] = <<>> THEN pre[f] ELSE a[f][1]
    /\ DOMAIN post = DOMAIN pre

\* C3: after a font template with a body has executed, the style state is the
\* state from before the template, whatever its parameters and its body did;
\* and its body started against the state with the parameters applied.
FontBodyScoped ==
    /\ (last.kind = "font" /\ last.body) =>
          /\ last.post = last.pre
          /\ ParamsApplied(last.pre, last.args, last.entered)
    /\ \A i \in 1..Len(stack) :
          ParamsApplied(stack[i].pre, stack[i].args, stack[i].entered)

\* C3 witness: a font template with a body, itself inside another body, has
\* returned; it had changed the state and its body had changed it further
FontBodyWitness ==
    /\ last.kind = "font"
    /\ last.body
    /\ last.depth >= 1
    /\ last.entered # last.pre
    /\ last.atExit # last.entered
    /\ last.post = state

\* C4: a font template without a body writes exactly the fields of the
\* supplied parameters, and what it wrote is the state the next template of
\* the same scope starts from.
FontNoBodyPersists ==
    /\ (last.kind = "font" /\ ~last.body) =>
          ParamsApplied(last.pre, last.args, last.post)
    /\ \A x \in {last} \cup {stack[i] : i \in 1..Len(stack)} :
          (x.kind # "none" /\ x.prev.kind = "font" /\ ~x.prev.body /\ x.prev.depth = x.depth)
              => x.pre = x.prev.post

\* C4 witness: a font template without a body changed the state, and a
\* template of the same scope ran after it
FontNoBodyWitness ==
    /\ last.kind = "font"
    /\ ~last.body
    /\ last.post # last.pre
    /\ last.args.list = <<>>
    /\ last.prev.kind = "font"
    /\ ~last.prev.body
    /\ last.prev.depth = last.depth
    /\ last.prev.post # DefaultState

\* C8: an image template whose resource cannot be loaded pushes no node and
\* records exactly the diagnostic "failed to load image" at the span of the
\* path; one whose resource loads pushes exactly one node and records no
\* diagnostic; neither changes the style state.
ImageLoadContract ==
    (last.kind = "image" /\ last.path # <<>>) =>
        LET p == last.path[1]
        IN  /\ last.post = last.pre
            /\ IF Env[p.v] = <<>>
               THEN /\ last.sink1 = last.sink0
                    /\ Len(last.diags1) = Len(last.diags0) + 1
                    /\ SubSeq(last.diags1, 1, Len(last.diags0)) = last.diags0
                    /\ last.diags1[Len(last.diags1)].message = "failed to load image"
                    /\ last.diags1[Len(last.diags1)].span = p.span
               ELSE /\ last.diags1 = last.diags0
                    /\ Len(last.sink1) = Len(last.sink0) + 1
                    /\ SubSeq(last.sink1, 1, Len(last.sink0)) = last.sink0
                    /\ last.sink1[Len(last.sink1)].id = Env[p.v][1].id

\* C8 witness: a failed load after an image was pushed and a diagnostic recorded
ImageLoadWitness ==
    /\ last.kind = "image"
    /\ last.path # <<>>
    /\ Env[last.path[1].v] = <<>>
    /\ Len(last.sink0) >= 1
    /\ Len(last.diags0) >= 1
    /\ sink = last.sink1

(***************************************************************************)
(* Claims about the casts.                                                 *)
(***************************************************************************)
\* C5: an integer w casts to FontWeight as Ok(w) when 100 <= w <= 900, as
\* Warn(100) when w < 100 and as Warn(900) when w > 900, the warning naming
\* both 100 and 900; no integer gives Err.
WeightCastContract ==
    (cast.ty = "FontWeight" /\ cast.input.ty = "Int") =>
        LET w == cast.input.n
            r == cast.res
            names_bounds == \E i, j \in 1..Len(r.msg) : r.msg[i] = "100" /\ r.msg[j] = "900"
        IN  /\ r.tag # "Err"
            /\ (100 <= w /\ w <= 900) => (r.tag = "Ok" /\ r.v = w)
            /\ w < 100 => (r.tag = "Warn" /\ r.v = 100 /\ names_bounds)
            /\ w > 900 => (r.tag = "Warn" /\ r.v = 900 /\ names_bounds)

\* C5 witness: an integer above 900 whose low 16 bits are a valid weight
WeightCastWitness ==
    /\ cast.ty = "FontWeight"
    /\ cast.input.ty = "Int"
    /\ cast.input.n = 65536 + 100
    /\ cast.res.tag = "Warn"

\* C6: a ratio r casts to FontStretch as Ok of the stretch of ratio r when
\* 0.5 <= r <= 2.0, as Warn(0.5) when r < 0.5 and as Warn(2.0) when r > 2.0.
\* (The stretch of ratio r is taken as r in the precision of a stretch.)
StretchCastContract ==
    (cast.ty = "FontStretch" /\ cast.input.ty = "Relative") =>
        LET r == cast.input.n
            res == cast.res
            half == F64Unit \div 2
            two == 2 * F64Unit
        IN  /\ (half <= r /\ r <= two) => (res.tag = "Ok" /\ res.v = as_f32(r))
            /\ r < half => (res.tag = "Warn" /\ res.v = half)
            /\ r > two => (res.tag = "Warn" /\ res.v = two)

\* l is s with every upper-case letter replaced by its lower-case letter
IsLowerCased(l, s) ==
    /\ Len(l) = Len(s)
    /\ \A i \in 1..Len(s) :
          \/ \E j \in 1..26 : s[i] = UpperCase[j] /\ l[i] = LowerCase[j]
          \/ (\A j \in 1..26 : s[i] # UpperCase[j]) /\ l[i] = s[i]

IsStr(v) == v.ty = "Str"

\* C9: a string casts to the one-element list of the string lower-cased; an
\* array casts to Ok of its strings, lower-cased, in their order, everything
\* else dropped; ["Serif", 5, "MONO"] gives ["serif", "mono"].
FamiliesCastContract ==
    (cast.ty = "FontFamilies") =>
        LET v == cast.input
            r == cast.res
        IN  /\ v.ty = "Str" =>
                  (r.tag = "Ok" /\ Len(r.v) = 1 /\ IsLowerCased(r.v[1], v.s))
            /\ v.ty = "Array" =>
                  LET strs == SelectSeq(v.a, IsStr)
                  IN  /\ r.tag = "Ok"
                      /\ Len(r.v) = Len(strs)
                      /\ \A i \in 1..Len(strs) : IsLowerCased(r.v[i], strs[i].s)
            /\ v = Value_Array(<<Value_Str(<<"S", "e", "r", "i", "f">>), Value_Int(5),
                                 Value_Str(<<"M", "O", "N", "O">>)>>)
                  => r.v = << <<"s", "e", "r", "i", "f">>, <<"m", "o", "n", "o">> >>

\* C9 witness: the array ["Serif", 5, "MONO"] was cast
FamiliesCastWitness ==
    /\ cast.ty = "FontFamilies"
    /\ cast.input.ty = "Array"
    /\ Len(cast.input.a) = 3
    /\ cast.input.a[1] = Value_Str(<<"S", "e", "r", "i", "f">>)
    /\ cast.input.a[2] = Value_Int(5)
    /\ cast.input.a[3] = Value_Str(<<"M", "O", "N", "O">>)
    /\ Len(cast.res.v) = 2

(***************************************************************************)
(* Claims about the layout of an image node.                               *)
(***************************************************************************)
\* the size the cases of the sizing policy give, in their priority order
PolicySize(node, areas) ==
    LET pw == Fin(node.dimensions[1], 1)
        ph == Fin(node.dimensions[2], 1)
        pixel_ratio == Div(pw, ph)
        cw == areas.current.width
        ch == areas.current.height
    IN  IF node.width # <<>> /\ node.height # <<>>
        THEN [width |-> resolve(node.width[1], areas.full.width),
              height |-> resolve(node.height[1], areas.full.height)]
        ELSE IF node.width # <<>>
        THEN LET w == resolve(node.width[1], areas.full.width)
             IN  [width |-> w, height |-> Div(w, pixel_ratio)]
        ELSE IF node.height # <<>>
        THEN LET h == resolve(node.height[1], areas.full.height)
             IN  [width |-> Mul(h, pixel_ratio), height |-> h]
        ELSE IF cw.k = "fin" /\ Lt(Div(cw, ch), pixel_ratio)
        THEN [width |-> cw, height |-> Div(cw, pixel_ratio)]
        ELSE IF ch.k = "fin"
        THEN [width |-> Mul(ch, pixel_ratio), height |-> ch]
        ELSE [width |-> pw, height |-> ph]

\* no override, and neither fitting case applies
Fallback(node, areas) ==
    /\ node.width = <<>>
    /\ node.height = <<>>
    /\ ~(areas.current.width.k = "fin"
            /\ Lt(Div(areas.current.width, areas.current.height),
                  Div(Fin(node.dimensions[1], 1), Fin(node.dimensions[2], 1))))
    /\ areas.current.height.k # "fin"

\* C7: the frame's size follows the cases of the sizing policy in their
\* priority order, the last case being taken only when both axes of current
\* are unbounded; 100x50 pixels give (200, 100) with width 200, (150, 75) in
\* a region (150, unbounded) and (100pt, 50pt) in an unbounded region.
ImageSizeContract ==
    lay.done =>
        LET node == lay.node
            areas == lay.areas
            size == lay.frames[1].size
            plain == node.width = <<>> /\ node.height = <<>>
        IN  /\ size = PolicySize(node, areas)
            /\ Fallback(node, areas) =>
                  (areas.current.width = INF /\ areas.current.height = INF)
            /\ node.dimensions = <<100, 50>> =>
                  /\ (node.width = <<Linear(0, 200)>> /\ node.height = <<>>)
                        => size = [width |-> Fin(200, 1), height |-> Fin(100, 1)]
                  /\ (plain /\ areas.current = [width |-> Fin(150, 1), height |-> INF])
                        => size = [width |-> Fin(150, 1), height |-> Fin(75, 1)]
                  /\ (plain /\ areas.current = [width |-> INF, height |-> INF])
                        => size = [width |-> Fin(100, 1), height |-> Fin(50, 1)]

\* C7 witness: 100x50 pixels laid out without overrides in a region that is
\* 150 wide and unbounded in height
ImageSizeWitness ==
    /\ lay.done
    /\ lay.node.dimensions = <<100, 50>>
    /\ lay.node.width = <<>>
    /\ lay.node.height = <<>>
    /\ lay.areas.current.width = Fin(150, 1)
    /\ lay.areas.current.height = INF
    /\ lay.frames[1].size.height = Fin(75, 1)

\* C10: layout returns exactly one frame; its size is the resolved size, its
\* baseline is its height, and its only element is the image of the node's
\* resource id, of the frame's size, at the origin.
ImageFrameContract ==
    lay.done =>
        LET frames == lay.frames
        IN  /\ Len(frames) = 1
            /\ frames[1].size = PolicySize(lay.node, lay.areas)
            /\ frames[1].baseline = frames[1].size.height
            /\ Len(frames[1].elements) = 1
            /\ frames[1].elements[1].element.kind = "Image"
            /\ frames[1].elements[1].element.id = lay.node.id
            /\ frames[1].elements[1].element.size = frames[1].size
            /\ frames[1].elements[1].pos.x = Fin(0, 1)
            /\ frames[1].elements[1].pos.y = Fin(0, 1)

\* C10 witness: a layout with both overrides in a wholly unbounded region,
\* whose frame is not square
ImageFrameWitness ==
    /\ lay.done
    /\ lay.node.width # <<>>
    /\ lay.node.height # <<>>
    /\ lay.areas.current.width = INF
    /\ lay.areas.current.height = INF
    /\ Len(lay.frames) = 1
    /\ lay.frames[1].size.width # lay.frames[1].size.height
    /\ lay.frames[1].baseline # Fin(0, 1)

=============================================================================
